---- MODULE Spec2Model ----
(***************************************************************************)
(* The block cache of easy-fs (src/easy-fs/src/block_cache.rs): a cache    *)
(* entry (BlockCache) mirroring one device block, the pool                 *)
(* (BlockCacheManager) with its queue of (block_id, Arc<Mutex<BlockCache>>)*)
(* pairs, and the two functions that reach the pool through the global     *)
(* BLOCK_CACHE_MANAGER lock.                                               *)
(*                                                                         *)
(* One block device is modelled.  An Arc<Mutex<BlockCache>> allocation is  *)
(* named by an address; the strong count of an allocation is the number of *)
(* queue pairs that point to it plus the number of clones consumers hold.  *)
(* Every call runs under the lock(s) it takes in the source, so a call is  *)
(* one step.  A panic stops the program.                                   *)
(***************************************************************************)
EXTENDS Integers, Sequences, FiniteSets, TLC

\* ------------------------------------------------------------------ bounds
\* Pool capacity.  The source sets 16 (block_cache.rs:79); the model is
\* checked with a smaller pool, and every property is stated in terms of it.
BLOCK_CACHE_SIZE == 2
\* Bytes per block.  The crate sets 512; the model keeps a few bytes.
BLOCK_SZ == 2
\* A byte is 0..MaxByte.
MaxByte == 1
\* Clones of one Arc that consumers hold at a time.
MaxHandles == 2
\* Threads of the threaded specification.
MaxThreads == 2

Blocks == 0..BLOCK_CACHE_SIZE
Byte == 0..MaxByte
Buffer == [1..BLOCK_SZ -> Byte]
Fill(v) == [i \in 1..BLOCK_SZ |-> v]
\* Allocation names: two per block id, so that two live entries of the same
\* block can be told apart.
Addrs == Blocks \X {0, 1}
Threads == 1..MaxThreads
NoAddr == <<-1, -1>>
NoPair == <<-1, NoAddr>>
Offsets == 0..(BLOCK_SZ + 1)
Sizes == 0..(BLOCK_SZ + 1)
\* The typed accesses tried: every offset and size inside the block, and those
\* that pass its end by one byte.
TypedAccesses == {x \in Offsets \X Sizes : x[1] + x[2] <= BLOCK_SZ + 1}
Values(s) == [1..s -> Byte]

VARIABLES
    disk,       \* the device: block id -> contents
    heap,       \* address -> BlockCache (live) or a free slot
    queue,      \* BlockCacheManager.queue: sequence of <<block_id, address>>
    handles,    \* address -> Arc clones held outside the queue
    panicked,   \* a panic! or failed assert! has stopped the program
    io,         \* the device calls the last step made, in order
    last,       \* the last call: its arguments and what it returned
    written,    \* block id -> contents last given to the block through the cache
    touched,    \* addresses whose entry a modify was served on since it was
                \* created or last synced
    th,         \* thread -> where it is in its call, and its locals
    mlock,      \* the thread holding BLOCK_CACHE_MANAGER's lock, or 0
    elock       \* address -> the thread holding that entry's lock, or 0

vars == <<disk, heap, queue, handles, panicked, io, last, written, touched,
          th, mlock, elock>>
\* The variables of the threaded specification alone.
cvars == <<th, mlock, elock>>

\* ------------------------------------------------------------ block device
read_block(d, block_id) == d[block_id]
write_block(d, block_id, buf) == [d EXCEPT ![block_id] = buf]

ReadOp(block_id, buf) == [op |-> "read", id |-> block_id, data |-> buf]
WriteOp(block_id, buf) == [op |-> "write", id |-> block_id, data |-> buf]

RECURSIVE ApplyIO(_, _)
ApplyIO(d, ops) ==
    IF ops = << >> THEN d
    ELSE ApplyIO(IF Head(ops).op = "write"
                 THEN write_block(d, Head(ops).id, Head(ops).data)
                 ELSE d,
                 Tail(ops))

\* -------------------------------------------------------------- BlockCache
FreeSlot == [live |-> FALSE, block_id |-> 0, cache |-> Fill(0), modified |-> FALSE]

\* Mutant of BlockCache_new: the entry starts modified.
BlockCache_new_modified(d, block_id) ==
    [live |-> TRUE, block_id |-> block_id,
     cache |-> read_block(d, block_id), modified |-> TRUE]

\* BlockCache::new: a zeroed buffer filled by one read_block; modified: false.
BlockCache_new(d, block_id) ==
    [live |-> TRUE, block_id |-> block_id,
     cache |-> read_block(d, block_id), modified |-> FALSE]

\* addr_of_offset: &self.cache[offset]; the index is bounds-checked, -1 is
\* the index-out-of-bounds panic.
addr_of_offset(e, offset) ==
    IF offset < Len(e.cache) THEN offset ELSE -1

\* get_ref::<T>(offset) with size_of::<T>() = type_size.
get_ref(e, offset, type_size) ==
    IF ~(offset + type_size <= BLOCK_SZ) THEN [panic |-> TRUE, addr |-> -1]
    ELSE LET addr == addr_of_offset(e, offset) IN
         [panic |-> addr = -1, addr |-> addr]

\* Mutant of get_mut: the address without setting modified.
get_mut_keep_flag(e, offset, type_size) ==
    IF ~(offset + type_size <= BLOCK_SZ)
    THEN [panic |-> TRUE, addr |-> -1, entry |-> e]
    ELSE LET addr == addr_of_offset(e, offset)
         IN [panic |-> addr = -1, addr |-> addr, entry |-> e]

\* get_mut::<T>(offset): assert, then modified = true, then the address.
get_mut(e, offset, type_size) ==
    IF ~(offset + type_size <= BLOCK_SZ)
    THEN [panic |-> TRUE, addr |-> -1, entry |-> e]
    ELSE LET e1 == [e EXCEPT !.modified = TRUE]
             addr == addr_of_offset(e1, offset)
         IN [panic |-> addr = -1, addr |-> addr, entry |-> e1]

\* The bytes a &T at addr covers, and a store of v through a &mut T there.
ViewBytes(cache, addr, type_size) == [i \in 1..type_size |-> cache[addr + i]]
StoreBytes(cache, addr, v) ==
    [i \in 1..Len(cache) |->
        IF addr < i /\ i <= addr + Len(v) THEN v[i - addr] ELSE cache[i]]

\* read(offset, f) with f = |x: &T| *x.
read(e, offset, type_size) ==
    LET r == get_ref(e, offset, type_size) IN
    IF r.panic THEN [panic |-> TRUE, val |-> << >>]
    ELSE [panic |-> FALSE, val |-> ViewBytes(e.cache, r.addr, type_size)]

\* Mutant of modify: modified is set only when the store changed a byte.
modify_dirty_on_change(e, offset, v) ==
    LET r == get_mut(e, offset, Len(v)) IN
    IF r.panic THEN [panic |-> TRUE, entry |-> r.entry]
    ELSE LET c == StoreBytes(e.cache, r.addr, v) IN
         [panic |-> FALSE,
          entry |-> [e EXCEPT !.cache = c, !.modified = @ \/ c # e.cache]]

\* modify(offset, f) with f = |x: &mut T| *x = v.
modify(e, offset, v) ==
    LET r == get_mut(e, offset, Len(v)) IN
    IF r.panic THEN [panic |-> TRUE, entry |-> r.entry]
    ELSE [panic |-> FALSE,
          entry |-> [r.entry EXCEPT !.cache = StoreBytes(@, r.addr, v)]]

\* Mutants of sync: one writes and keeps modified set, one clears modified
\* and writes nothing.
sync_keep_modified(e) ==
    IF e.modified
    THEN [entry |-> e, io |-> << WriteOp(e.block_id, e.cache) >>]
    ELSE [entry |-> e, io |-> << >>]
sync_clear_only(e) ==
    [entry |-> [e EXCEPT !.modified = FALSE], io |-> << >>]

\* sync: if modified, clear it and write the buffer to the device.
sync(e) ==
    IF e.modified
    THEN [entry |-> [e EXCEPT !.modified = FALSE],
          io |-> << WriteOp(e.block_id, e.cache) >>]
    ELSE [entry |-> e, io |-> << >>]

\* Mutant of drop: the memory goes without a sync.
drop_no_sync(e) == [entry |-> FreeSlot, io |-> << >>]

\* impl Drop for BlockCache: sync, then the memory is gone.
drop(e) == [entry |-> FreeSlot, io |-> sync(e).io]

\* ------------------------------------------------------------------- Arc
\* Arc::strong_count of the allocation at address a.
strong_count(q, h, a) ==
    h[a] + Cardinality({i \in 1..Len(q) : q[i][2] = a})

\* One strong reference to a is gone (q, h are the queue and handles after
\* it): the BlockCache is dropped when none is left.
Arc_release(q, hp, h, a) ==
    IF strong_count(q, h, a) = 0
    THEN [heap |-> [hp EXCEPT ![a] = drop(hp[a]).entry], io |-> drop(hp[a]).io]
    ELSE [heap |-> hp, io |-> << >>]

\* ------------------------------------------------------- BlockCacheManager
Min(S) == CHOOSE x \in S : \A y \in S : x <= y

\* Mutants of find_block_id: one never finds, one skips the front pair.
find_none(q, block_id) == 0
find_behind_front(q, block_id) ==
    LET S == {i \in 2..Len(q) : q[i][1] = block_id} IN
    IF S = {} THEN 0 ELSE Min(S)

\* queue.iter().find(|pair| pair.0 == block_id): the first such index, or 0.
find_block_id(q, block_id) ==
    LET S == {i \in 1..Len(q) : q[i][1] = block_id} IN
    IF S = {} THEN 0 ELSE Min(S)

\* Mutants of find_unshared: the front pair whatever its count, the last
\* pair of count one, the first pair of count at most two.
find_front(q, h) == IF Len(q) > 0 THEN 1 ELSE 0
find_last_unshared(q, h) ==
    LET S == {i \in 1..Len(q) : strong_count(q, h, q[i][2]) = 1} IN
    IF S = {} THEN 0 ELSE CHOOSE x \in S : \A y \in S : y <= x
find_count_le_two(q, h) ==
    LET S == {i \in 1..Len(q) : strong_count(q, h, q[i][2]) <= 2} IN
    IF S = {} THEN 0 ELSE Min(S)

\* queue.iter().enumerate().find(|(_, pair)| Arc::strong_count(&pair.1) == 1):
\* the first such index from the front, or 0.
find_unshared(q, h) ==
    LET S == {i \in 1..Len(q) : strong_count(q, h, q[i][2]) = 1} IN
    IF S = {} THEN 0 ELSE Min(S)

\* Mutant of is_full: the test passes one pair early as well.
is_full_early(q) == Len(q) >= BLOCK_CACHE_SIZE - 1

\* Mutant of is_full: the test passes one pair late.
is_full_late(q) == Len(q) = BLOCK_CACHE_SIZE + 1

\* self.queue.len() == BLOCK_CACHE_SIZE
is_full(q) == Len(q) = BLOCK_CACHE_SIZE

\* queue.drain(idx..=idx)
drain(q, idx) == SubSeq(q, 1, idx - 1) \o SubSeq(q, idx + 1, Len(q))

\* Arc::new: a free address for the new allocation (NoAddr: none is left).
Arc_new(hp, block_id) ==
    IF ~hp[<<block_id, 0>>].live THEN <<block_id, 0>>
    ELSE IF ~hp[<<block_id, 1>>].live THEN <<block_id, 1>>
    ELSE NoAddr

\* BlockCacheManager::get_block_cache on queue q, heap hp, handles h and
\* device d: what it leaves and what it returns.
BlockCacheManager_get_block_cache(q, hp, h, d, block_id) ==
    LET found == find_block_id(q, block_id) IN
    IF found # 0
    THEN [panic |-> FALSE, queue |-> q, heap |-> hp, io |-> << >>,
          ret |-> q[found][2], victim |-> NoPair, peak |-> Len(q)]
    ELSE
      LET full == is_full(q)
          idx == IF full THEN find_unshared(q, h) ELSE 0
      IN
      IF full /\ idx = 0
      THEN [panic |-> TRUE, queue |-> q, heap |-> hp, io |-> << >>,
            ret |-> NoAddr, victim |-> NoPair, peak |-> Len(q)]
      ELSE
        LET q1 == IF full THEN drain(q, idx) ELSE q
            r1 == IF full THEN Arc_release(q1, hp, h, q[idx][2])
                  ELSE [heap |-> hp, io |-> << >>]
            d1 == ApplyIO(d, r1.io)
            a == Arc_new(r1.heap, block_id)
            e == BlockCache_new(d1, block_id)
            q2 == Append(q1, <<block_id, a>>)
        IN [panic |-> FALSE, queue |-> q2,
            heap |-> IF a = NoAddr THEN r1.heap ELSE [r1.heap EXCEPT ![a] = e],
            io |-> r1.io \o << ReadOp(block_id, e.cache) >>,
            ret |-> a,
            victim |-> IF full THEN q[idx] ELSE NoPair,
            peak |-> Len(q2)]

\* for (_, cache) in manager.queue.iter() { cache.lock().sync(); }
RECURSIVE sync_from(_, _, _)
sync_from(q, hp, i) ==
    IF i > Len(q) THEN [heap |-> hp, io |-> << >>]
    ELSE LET a == q[i][2]
             s == sync(hp[a])
             rest == sync_from(q, [hp EXCEPT ![a] = s.entry], i + 1)
         IN [heap |-> rest.heap, io |-> s.io \o rest.io]

\* ------------------------------------------------------------------ calls
Call(op, id, ptr, victim, off, sz, val, peak) ==
    [op |-> op, id |-> id, ptr |-> ptr, victim |-> victim,
     off |-> off, sz |-> sz, val |-> val, peak |-> peak]

\* A thread outside every call, holding no Arc.
Idle == [pc |-> "idle", id |-> -1, ptr |-> NoAddr, i |-> 0, op |-> "none",
         rd |-> 0, res0 |-> FALSE]

Init ==
    /\ disk = [b \in Blocks |-> Fill(0)]
    /\ heap = [a \in Addrs |-> FreeSlot]
    /\ queue = << >>
    /\ handles = [a \in Addrs |-> 0]
    /\ panicked = FALSE
    /\ io = << >>
    /\ last = Call("init", -1, NoAddr, NoPair, 0, 0, << >>, 0)
    /\ written = [b \in Blocks |-> Fill(0)]
    /\ touched = {}
    /\ th = [t \in Threads |-> Idle]
    /\ mlock = 0
    /\ elock = [a \in Addrs |-> 0]

\* get_block_cache(block_id, device): BLOCK_CACHE_MANAGER.lock(), then the
\* manager's get_block_cache; the caller keeps the Arc returned.
get_block_cache(block_id) ==
    /\ ~panicked
    /\ LET r == BlockCacheManager_get_block_cache(queue, heap, handles, disk, block_id) IN
       /\ r.panic \/ (r.ret # NoAddr /\ handles[r.ret] < MaxHandles)
       /\ queue' = r.queue
       /\ heap' = r.heap
       /\ io' = r.io
       /\ disk' = ApplyIO(disk, r.io)
       /\ handles' = IF r.panic THEN handles ELSE [handles EXCEPT ![r.ret] = @ + 1]
       /\ panicked' = r.panic
       /\ last' = Call("get", block_id, r.ret, r.victim, 0, 0, << >>, r.peak)
       /\ touched' = IF find_block_id(queue, block_id) # 0 THEN touched
                     ELSE touched \ {r.victim[2], r.ret}
       /\ UNCHANGED <<written, cvars>>

\* A consumer drops one Arc it holds.
release(a) ==
    /\ ~panicked
    /\ handles[a] > 0
    /\ LET h1 == [handles EXCEPT ![a] = @ - 1]
           r == Arc_release(queue, heap, h1, a)
       IN /\ handles' = h1
          /\ heap' = r.heap
          /\ io' = r.io
          /\ disk' = ApplyIO(disk, r.io)
          /\ last' = Call("release", heap[a].block_id, a, NoPair, 0, 0, << >>, Len(queue))
          /\ touched' = {x \in touched : r.heap[x].live}
    /\ UNCHANGED <<queue, panicked, written, cvars>>

\* A consumer calls cache.lock().modify(offset, |x| *x = v) on an Arc it holds.
lock_modify(a, offset, v) ==
    /\ ~panicked
    /\ handles[a] > 0
    /\ LET r == modify(heap[a], offset, v) IN
       /\ heap' = [heap EXCEPT ![a] = r.entry]
       /\ panicked' = r.panic
       /\ written' = IF r.panic THEN written
                     ELSE [written EXCEPT ![heap[a].block_id] = r.entry.cache]
       /\ last' = Call("modify", heap[a].block_id, a, NoPair, offset, Len(v),
                       IF r.panic THEN << >> ELSE v, Len(queue))
       /\ touched' = IF r.panic THEN touched ELSE touched \cup {a}
    /\ io' = << >>
    /\ UNCHANGED <<disk, queue, handles, cvars>>

\* A consumer calls cache.lock().read(offset, |x| *x) on an Arc it holds.
lock_read(a, offset, type_size) ==
    /\ ~panicked
    /\ handles[a] > 0
    /\ LET r == read(heap[a], offset, type_size) IN
       /\ panicked' = r.panic
       /\ last' = Call("read", heap[a].block_id, a, NoPair, offset, type_size, r.val, Len(queue))
    /\ io' = << >>
    /\ UNCHANGED <<disk, heap, queue, handles, written, touched, cvars>>

\* A consumer calls cache.lock().sync() on an Arc it holds.
lock_sync(a) ==
    /\ ~panicked
    /\ handles[a] > 0
    /\ LET r == sync(heap[a]) IN
       /\ heap' = [heap EXCEPT ![a] = r.entry]
       /\ io' = r.io
       /\ disk' = ApplyIO(disk, r.io)
    /\ last' = Call("sync", heap[a].block_id, a, NoPair, 0, 0, << >>, Len(queue))
    /\ touched' = touched \ {a}
    /\ UNCHANGED <<queue, handles, panicked, written, cvars>>

\* block_cache_sync_all: BLOCK_CACHE_MANAGER.lock(), then sync every entry.
block_cache_sync_all ==
    /\ ~panicked
    /\ LET r == sync_from(queue, heap, 1) IN
       /\ heap' = r.heap
       /\ io' = r.io
       /\ disk' = ApplyIO(disk, r.io)
    /\ last' = Call("sync_all", -1, NoAddr, NoPair, 0, 0, << >>, Len(queue))
    /\ touched' = touched \ {queue[i][2] : i \in 1..Len(queue)}
    /\ UNCHANGED <<queue, handles, panicked, written, cvars>>

\* The pool under whole-block writes and reads.
Next ==
    \/ \E b \in Blocks : get_block_cache(b)
    \/ \E a \in Addrs : release(a)
    \/ \E a \in Addrs, v \in Byte : lock_modify(a, 0, Fill(v))
    \/ \E a \in Addrs : lock_read(a, 0, BLOCK_SZ)
    \/ \E a \in Addrs : lock_sync(a)
    \/ block_cache_sync_all

Spec == Init /\ [][Next]_vars

\* One block under every typed access: every offset, size and value.
NextTyped ==
    \/ get_block_cache(0)
    \/ \E a \in Addrs : release(a)
    \/ \E a \in Addrs, x \in TypedAccesses : \E v \in Values(x[2]) : lock_modify(a, x[1], v)
    \/ \E a \in Addrs, x \in TypedAccesses : lock_read(a, x[1], x[2])
    \/ \E a \in Addrs : lock_sync(a)
    \/ block_cache_sync_all

SpecTyped == Init /\ [][NextTyped]_vars

\* ---------------------------------------------------------------- threads
\* The same calls made by threads, a step per lock taken and per part of a
\* call done under it.  What the blocks hold is the matter of Spec and
\* SpecTyped: here io, last, written and touched keep their first values.
frozen == <<io, last, written, touched>>

\* Mutant of Mutex_free: the lock is given to whoever asks.
Mutex_free_always(holder) == TRUE

\* spin::Mutex::lock gets through when no thread holds the lock.
Mutex_free(holder) == holder = 0

\* Mutant of guard_drop: the entry's lock is never given back.
guard_leak(elk, a) == elk

\* The MutexGuard of the entry at a goes out of scope.
guard_drop(elk, a) == [elk EXCEPT ![a] = 0]

\* The locals a thread keeps when its call returns.
Return(r) == [r EXCEPT !.pc = "idle", !.i = 0, !.op = "none"]

\* Thread t calls get_block_cache(b, device); it holds no Arc yet.
call_get(t, b) ==
    /\ ~panicked
    /\ th[t].pc = "idle" /\ th[t].ptr = NoAddr
    /\ th' = [th EXCEPT ![t] = [@ EXCEPT !.pc = "get_lock", !.id = b, !.rd = 0,
                                         !.res0 = \E i \in 1..Len(queue) : queue[i][1] = b]]
    /\ UNCHANGED <<disk, heap, queue, handles, panicked, mlock, elock, frozen>>

\* BLOCK_CACHE_MANAGER.lock()
get_lock(t) ==
    /\ ~panicked
    /\ th[t].pc = "get_lock"
    /\ Mutex_free(mlock)
    /\ mlock' = t
    /\ th' = [th EXCEPT ![t].pc = "get_find"]
    /\ UNCHANGED <<disk, heap, queue, handles, panicked, elock, frozen>>

\* The lookup: on a hit, the clone is returned and the guard dropped.
get_find(t) ==
    /\ ~panicked
    /\ th[t].pc = "get_find"
    /\ LET found == find_block_id(queue, th[t].id) IN
       IF found # 0
       THEN /\ handles' = [handles EXCEPT ![queue[found][2]] = @ + 1]
            /\ th' = [th EXCEPT ![t] = Return([@ EXCEPT !.ptr = queue[found][2]])]
            /\ mlock' = 0
       ELSE /\ th' = [th EXCEPT ![t].pc = IF is_full(queue) THEN "get_evict"
                                          ELSE "get_insert"]
            /\ UNCHANGED <<handles, mlock>>
    /\ UNCHANGED <<disk, heap, queue, panicked, elock, frozen>>

\* The eviction on a full pool: find, drain, and the drop of the entry with
\* its device write; or the panic.
get_evict(t) ==
    /\ ~panicked
    /\ th[t].pc = "get_evict"
    /\ LET idx == find_unshared(queue, handles) IN
       IF idx = 0
       THEN /\ panicked' = TRUE
            /\ UNCHANGED <<disk, heap, queue, th>>
       ELSE LET q1 == drain(queue, idx)
                r == Arc_release(q1, heap, handles, queue[idx][2])
            IN /\ queue' = q1
               /\ heap' = r.heap
               /\ disk' = ApplyIO(disk, r.io)
               /\ th' = [th EXCEPT ![t].pc = "get_insert"]
               /\ UNCHANGED panicked
    /\ UNCHANGED <<handles, mlock, elock, frozen>>

\* The insert: BlockCache::new with its device read, push_back, the clone
\* returned and the guard dropped.
get_insert(t) ==
    /\ ~panicked
    /\ th[t].pc = "get_insert"
    /\ LET a == Arc_new(heap, th[t].id)
           e == BlockCache_new(disk, th[t].id)
       IN /\ a # NoAddr
          /\ heap' = [heap EXCEPT ![a] = e]
          /\ queue' = Append(queue, <<th[t].id, a>>)
          /\ handles' = [handles EXCEPT ![a] = @ + 1]
          /\ th' = [th EXCEPT ![t] = Return([@ EXCEPT !.ptr = a, !.rd = 1])]
    /\ mlock' = 0
    /\ UNCHANGED <<disk, panicked, elock, frozen>>

\* Thread t calls block_cache_sync_all().
call_sync_all(t) ==
    /\ ~panicked
    /\ th[t].pc = "idle"
    /\ th' = [th EXCEPT ![t].pc = "all_lock"]
    /\ UNCHANGED <<disk, heap, queue, handles, panicked, mlock, elock, frozen>>

\* let manager = BLOCK_CACHE_MANAGER.lock();
all_lock(t) ==
    /\ ~panicked
    /\ th[t].pc = "all_lock"
    /\ Mutex_free(mlock)
    /\ mlock' = t
    /\ th' = [th EXCEPT ![t] = [@ EXCEPT !.pc = "all_next", !.i = 1]]
    /\ UNCHANGED <<disk, heap, queue, handles, panicked, elock, frozen>>

\* cache.lock() on the next entry of the queue
all_entry_lock(t) ==
    /\ ~panicked
    /\ th[t].pc = "all_next"
    /\ th[t].i <= Len(queue)
    /\ Mutex_free(elock[queue[th[t].i][2]])
    /\ elock' = [elock EXCEPT ![queue[th[t].i][2]] = t]
    /\ th' = [th EXCEPT ![t].pc = "all_sync"]
    /\ UNCHANGED <<disk, heap, queue, handles, panicked, mlock, frozen>>

\* .sync(); and the entry's guard is dropped
all_sync(t) ==
    /\ ~panicked
    /\ th[t].pc = "all_sync"
    /\ LET a == queue[th[t].i][2]
           r == sync(heap[a])
       IN /\ heap' = [heap EXCEPT ![a] = r.entry]
          /\ disk' = ApplyIO(disk, r.io)
          /\ elock' = guard_drop(elock, a)
    /\ th' = [th EXCEPT ![t] = [@ EXCEPT !.pc = "all_next", !.i = @ + 1]]
    /\ UNCHANGED <<queue, handles, panicked, mlock, frozen>>

\* The loop is over: block_cache_sync_all returns and drops the manager's guard.
all_unlock(t) ==
    /\ ~panicked
    /\ th[t].pc = "all_next"
    /\ th[t].i > Len(queue)
    /\ mlock' = 0
    /\ th' = [th EXCEPT ![t] = Return(@)]
    /\ UNCHANGED <<disk, heap, queue, handles, panicked, elock, frozen>>

\* Thread t calls cache.lock().modify / read / sync on the Arc it holds.
call_typed(t, op) ==
    /\ ~panicked
    /\ th[t].pc = "idle" /\ th[t].ptr # NoAddr
    /\ th' = [th EXCEPT ![t] = [@ EXCEPT !.pc = "entry_lock", !.op = op]]
    /\ UNCHANGED <<disk, heap, queue, handles, panicked, mlock, elock, frozen>>

\* cache.lock()
entry_lock(t) ==
    /\ ~panicked
    /\ th[t].pc = "entry_lock"
    /\ Mutex_free(elock[th[t].ptr])
    /\ elock' = [elock EXCEPT ![th[t].ptr] = t]
    /\ th' = [th EXCEPT ![t].pc = "entry_body"]
    /\ UNCHANGED <<disk, heap, queue, handles, panicked, mlock, frozen>>

\* The call on the locked entry, and the guard is dropped.  The closure of a
\* modify takes the whole block as &mut and leaves its bytes as they are.
entry_body(t) ==
    /\ ~panicked
    /\ th[t].pc = "entry_body"
    /\ LET a == th[t].ptr
           e == IF th[t].op = "modify" THEN modify(heap[a], 0, heap[a].cache).entry
                ELSE IF th[t].op = "sync" THEN sync(heap[a]).entry
                ELSE heap[a]
           w == IF th[t].op = "sync" THEN sync(heap[a]).io ELSE << >>
       IN /\ heap' = [heap EXCEPT ![a] = e]
          /\ disk' = ApplyIO(disk, w)
          /\ elock' = guard_drop(elock, a)
    /\ th' = [th EXCEPT ![t] = Return(@)]
    /\ UNCHANGED <<queue, handles, panicked, mlock, frozen>>

\* Thread t drops the Arc it holds.
drop_arc(t) ==
    /\ ~panicked
    /\ th[t].pc = "idle" /\ th[t].ptr # NoAddr
    /\ LET h1 == [handles EXCEPT ![th[t].ptr] = @ - 1]
           r == Arc_release(queue, heap, h1, th[t].ptr)
       IN /\ handles' = h1
          /\ heap' = r.heap
          /\ disk' = ApplyIO(disk, r.io)
    /\ th' = [th EXCEPT ![t] = Idle]
    /\ UNCHANGED <<queue, panicked, mlock, elock, frozen>>

\* A step of thread t inside a call.
Progress(t) ==
    \/ get_lock(t) \/ get_find(t) \/ get_evict(t) \/ get_insert(t)
    \/ all_lock(t) \/ all_entry_lock(t) \/ all_sync(t) \/ all_unlock(t)
    \/ entry_lock(t) \/ entry_body(t)

NextConc ==
    \E t \in Threads :
        \/ \E b \in Blocks : call_get(t, b)
        \/ call_sync_all(t)
        \/ \E op \in {"modify", "read", "sync"} : call_typed(t, op)
        \/ drop_arc(t)
        \/ Progress(t)

\* Threads on the pool; nothing is assumed of how they are scheduled.
SpecConc == Init /\ [][NextConc]_vars

\* The same with every thread that can go on in its call going on: a thread
\* runs, and spin::Mutex::lock keeps trying.
SpecConcFair == SpecConc /\ \A t \in Threads : WF_vars(Progress(t))

\* The same with locks that let no waiting thread starve, which a
\* test-and-set spin lock does not promise.
SpecConcStrong == SpecConc /\ \A t \in Threads : SF_vars(Progress(t))

\* ----------------------------------------------------------------- claims
Range(q) == {q[i] : i \in 1..Len(q)}
Resident(b) == \E i \in 1..Len(queue) : queue[i][1] = b
Pinned(i) == handles[queue[i][2]] > 0
\* The step is a get_block_cache of an id that was not in the queue.
MissStep == last'.op = "get" /\ ~Resident(last'.id)
\* The step is a get_block_cache of an id that was in the queue.
HitStep == last'.op = "get" /\ Resident(last'.id)

\* C1 (pinning protection): no step takes out of the queue a pair whose
\* entry a consumer still holds; and on a full pool whose front entry is
\* held and whose second entry is not, a get_block_cache of a new id takes
\* out the second pair and keeps the front one.
C1_PinningProtection ==
    [][ /\ \A i \in 1..Len(queue) : queue[i] \notin Range(queue') => ~Pinned(i)
        /\ (MissStep /\ Len(queue) = BLOCK_CACHE_SIZE /\ Pinned(1) /\ ~Pinned(2))
             => /\ ~panicked'
                /\ queue[1] \in Range(queue')
                /\ queue[2] \notin Range(queue')
                /\ last'.victim = queue[2] ]_vars

\* C1 witness: block 0, held, is still at the front after a get_block_cache
\* of a new id evicted block 1 from behind it.
C1_Witness ==
    /\ last.op = "get" /\ last.id = BLOCK_CACHE_SIZE
    /\ last.victim # NoPair /\ last.victim[1] = 1
    /\ Len(queue) = BLOCK_CACHE_SIZE
    /\ queue[1][1] = 0 /\ Pinned(1)

\* C2 (FIFO with skip): a miss on a full pool that does not panic removes the
\* pair at the least index whose strong count is one, keeps the others in
\* order and appends the new pair; a hit leaves the queue as it was.
C2_FifoWithSkip ==
    [][ /\ (MissStep /\ Len(queue) = BLOCK_CACHE_SIZE /\ ~panicked')
             => \E i \in 1..Len(queue) :
                  /\ strong_count(queue, handles, queue[i][2]) = 1
                  /\ \A j \in 1..(i - 1) : strong_count(queue, handles, queue[j][2]) # 1
                  /\ last'.victim = queue[i]
                  /\ queue' = SubSeq(queue, 1, i - 1) \o SubSeq(queue, i + 1, Len(queue))
                                \o << <<last'.id, last'.ptr>> >>
        /\ HitStep => queue' = queue ]_vars

\* C2 witness: blocks 0..N-1 were admitted in order, none is held, and a
\* get_block_cache of block N has evicted block 0.
C2_Witness ==
    /\ last.op = "get" /\ last.id = BLOCK_CACHE_SIZE
    /\ last.victim # NoPair /\ last.victim[1] = 0
    /\ Len(queue) = BLOCK_CACHE_SIZE
    /\ \A i \in 1..Len(queue) : queue[i][1] = i
    /\ \A i \in 1..(Len(queue) - 1) : ~Pinned(i)

\* C3 (dirty flush on eviction): when a get_block_cache evicts a pair, the
\* device then holds the evicted entry's buffer, which is what was last
\* written to that block; and every entry a miss creates starts with the
\* contents last written to its block.
C3_DirtyFlushOnEviction ==
    [][ /\ (last'.op = "get" /\ last'.victim # NoPair)
             => /\ disk'[last'.victim[1]] = heap[last'.victim[2]].cache
                /\ disk'[last'.victim[1]] = written[last'.victim[1]]
        /\ (MissStep /\ ~panicked')
             => heap'[last'.ptr].cache = written[last'.id] ]_vars

\* C3 witness: an eviction wrote a modified buffer, other than the initial
\* contents, to the device.
C3_Witness ==
    /\ last.op = "get" /\ last.victim # NoPair
    /\ Len(io) = 2 /\ io[1].op = "write" /\ io[1].id = last.victim[1]
    /\ io[1].data # Fill(0)
    /\ disk[last.victim[1]] = io[1].data

\* C4 (identity sharing): a get_block_cache of an id that is in the queue
\* returns the address the queue holds for it and touches no entry; and a
\* read through any handle returns the bytes last written to that block
\* through any handle.
C4_IdentitySharing ==
    [][ /\ HitStep
             => /\ <<last'.id, last'.ptr>> \in Range(queue)
                /\ heap' = heap
                /\ handles'[last'.ptr] = handles[last'.ptr] + 1
        /\ (last'.op = "read" /\ ~panicked')
             => last'.val = ViewBytes(written[last'.id], last'.off, last'.sz) ]_vars

\* C4 witness: two handles to one entry are held, and a read through one
\* returned what was written.
C4_Witness ==
    /\ last.op = "read" /\ ~panicked
    /\ handles[last.ptr] = 2
    /\ last.val = Fill(1)
    /\ heap[last.ptr].modified

\* C5 (capacity bound): the queue never holds more than BLOCK_CACHE_SIZE
\* pairs, also not while a call runs (peak is its greatest length in the
\* last call).
C5_CapacityBound ==
    /\ Len(queue) <= BLOCK_CACHE_SIZE
    /\ last.peak <= BLOCK_CACHE_SIZE

\* C5 witness: a full pool took a new block in.
C5_Witness ==
    /\ last.op = "get" /\ last.victim # NoPair
    /\ Len(queue) = BLOCK_CACHE_SIZE
    /\ last.peak = BLOCK_CACHE_SIZE

\* C6 (key uniqueness): no two pairs of the queue have the same block id.
C6_KeyUniqueness ==
    \A i, j \in 1..Len(queue) : queue[i][1] = queue[j][1] => i = j

\* C6 witness: the queue is full and the last call asked for an id it held.
C6_Witness ==
    /\ last.op = "get" /\ ~panicked
    /\ Len(queue) = BLOCK_CACHE_SIZE
    /\ io = << >>
    /\ handles[last.ptr] = 2

\* C7 (saturation failure): a get_block_cache of an id not in the queue, on a
\* full pool all of whose entries are held, panics, calls the device not at
\* all and leaves the queue, every entry, the handles and the device as they
\* were.
C7_SaturationFailure ==
    [][ (MissStep /\ Len(queue) = BLOCK_CACHE_SIZE
           /\ \A i \in 1..Len(queue) : Pinned(i))
          => /\ panicked'
             /\ io' = << >>
             /\ queue' = queue
             /\ heap' = heap
             /\ handles' = handles
             /\ disk' = disk ]_vars

\* C7 witness: the program panicked in get_block_cache with every entry held
\* and one of them modified.
C7_Witness ==
    /\ panicked /\ last.op = "get"
    /\ Len(queue) = BLOCK_CACHE_SIZE
    /\ \A i \in 1..Len(queue) : Pinned(i)
    /\ \E i \in 1..Len(queue) : heap[queue[i][2]].modified

\* C8 (flush idempotence): a sync of a modified entry makes exactly one
\* device write, of its buffer to its block, and clears modified; a sync of
\* an unmodified entry calls the device not at all and changes nothing; so a
\* sync right after a modify writes once, and a sync right after a sync of
\* the same entry writes nothing.
C8_FlushIdempotence ==
    [][ last'.op = "sync"
          => LET a == last'.ptr
                 e == heap[a]
             IN /\ e.modified
                     => /\ io' = << WriteOp(e.block_id, e.cache) >>
                        /\ disk' = [disk EXCEPT ![e.block_id] = e.cache]
                        /\ heap' = [heap EXCEPT ![a].modified = FALSE]
                /\ ~e.modified
                     => /\ io' = << >> /\ disk' = disk /\ heap' = heap
                /\ (last.op = "modify" /\ last.ptr = a /\ ~panicked)
                     => /\ io = << >> /\ Len(io') = 1 /\ io'[1].op = "write"
                /\ (last.op = "sync" /\ last.ptr = a)
                     => /\ io' = << >> /\ disk' = disk /\ heap' = heap ]_vars

\* C8 witness: a sync found the entry unmodified after an earlier sync had
\* written its modified buffer, and called the device not at all.
C8_Witness ==
    /\ last.op = "sync" /\ io = << >>
    /\ ~heap[last.ptr].modified
    /\ heap[last.ptr].cache # Fill(0)
    /\ disk[last.id] = heap[last.ptr].cache

\* C9 (bulk flush completeness): when block_cache_sync_all has returned,
\* every entry of the queue is not modified and the device holds its buffer,
\* which is what was last written to the block.
C9_BulkFlushCompleteness ==
    last.op = "sync_all"
      => \A i \in 1..Len(queue) :
           /\ ~heap[queue[i][2]].modified
           /\ disk[queue[i][1]] = heap[queue[i][2]].cache
           /\ disk[queue[i][1]] = written[queue[i][1]]

\* C9 witness: block_cache_sync_all wrote every entry of a full pool.
C9_Witness ==
    /\ last.op = "sync_all"
    /\ Len(queue) = BLOCK_CACHE_SIZE
    /\ Len(io) = BLOCK_CACHE_SIZE
    /\ \E i \in 1..Len(io) : io[i].data # Fill(0)

\* C10 (read after write): for every offset and size with
\* offset + size <= BLOCK_SZ, a modify storing V is served, a read of the same
\* offset and size right after it is served and returns V, and neither calls
\* the device.
C10_ReadAfterWrite ==
    [][ /\ (last'.op \in {"modify", "read"} /\ last'.off + last'.sz <= BLOCK_SZ)
             => ~panicked' /\ io' = << >> /\ disk' = disk
        /\ (last.op = "modify" /\ last'.op = "read" /\ last'.ptr = last.ptr
              /\ last'.off = last.off /\ last'.sz = last.sz
              /\ last.off + last.sz <= BLOCK_SZ)
             => last'.val = last.val ]_vars

\* C10, where the code serves it: the same for every offset < BLOCK_SZ, and a
\* modify or read at offset = BLOCK_SZ of a zero-sized type panics.
C10_ReadAfterWriteInsideBuffer ==
    [][ /\ (last'.op \in {"modify", "read"} /\ last'.off + last'.sz <= BLOCK_SZ)
             => /\ panicked' = (last'.off = BLOCK_SZ)
                /\ io' = << >> /\ disk' = disk
        /\ (last.op = "modify" /\ last'.op = "read" /\ last'.ptr = last.ptr
              /\ last'.off = last.off /\ last'.sz = last.sz
              /\ last.off + last.sz <= BLOCK_SZ /\ last.off < BLOCK_SZ)
             => last'.val = last.val ]_vars

\* C11 (typed-access bounds): a modify or read at offset o of a type of size
\* s is served whenever o + s <= BLOCK_SZ, also for s = 0 at o = BLOCK_SZ, and
\* panics whenever o + s > BLOCK_SZ, storing nothing and reading nothing.
C11_TypedAccessBounds ==
    [][ last'.op \in {"modify", "read"}
          => /\ panicked' = (last'.off + last'.sz > BLOCK_SZ)
             /\ panicked' => /\ heap'[last'.ptr].cache = heap[last'.ptr].cache
                             /\ last'.val = << >>
                             /\ disk' = disk /\ io' = << >> ]_vars

\* C11, as the code has it: the access is served exactly when it ends inside
\* the block and starts before its end; a refused access stores nothing and
\* reads nothing, and a refused modify past the end leaves modified as it was.
C11_TypedAccessBoundsAsCoded ==
    [][ last'.op \in {"modify", "read"}
          => /\ panicked' = (last'.off + last'.sz > BLOCK_SZ \/ last'.off >= BLOCK_SZ)
             /\ panicked' => /\ heap'[last'.ptr].cache = heap[last'.ptr].cache
                             /\ last'.val = << >>
                             /\ disk' = disk /\ io' = << >>
             /\ last'.off + last'.sz > BLOCK_SZ => heap' = heap ]_vars

\* The contents last written to block b are on the device.
Durable(b) == disk[b] = written[b]
\* The contents last written to block b are in its entry in the queue, which
\* is marked modified.
Pending(b) ==
    \E i \in 1..Len(queue) :
        /\ queue[i][1] = b
        /\ heap[queue[i][2]].modified
        /\ heap[queue[i][2]].cache = written[b]

\* C12 (eventual durability): every block modified has its modified contents
\* written to the device before the program ends, also when the pool is full:
\* once the program has stopped, the device holds the contents last written
\* to every block.
C12_EventualDurability ==
    panicked => \A b \in Blocks : Durable(b)

\* C12, amended (no lost update): at every moment the contents last written
\* to a block are on the device or in its modified entry in the queue; a
\* sync, a block_cache_sync_all and an eviction each leave on the device the
\* contents last written to the blocks they flush; dropping a handle writes
\* nothing while the queue still holds the entry.
C12_NoLostUpdate ==
    [][ /\ \A b \in Blocks : Durable(b)' \/ Pending(b)'
        /\ last'.op = "sync" => disk'[last'.id] = written'[last'.id]
        /\ last'.op = "sync_all" => \A b \in Blocks : Durable(b)'
        /\ (last'.op = "get" /\ last'.victim # NoPair)
             => disk'[last'.victim[1]] = written'[last'.victim[1]]
        /\ last'.op = "release" => io' = << >> /\ disk' = disk ]_vars

\* C12 witness: a full pool evicted a modified entry, whose contents are on
\* the device, while the entry it kept is still modified and not yet written.
C12_Witness ==
    /\ last.op = "get" /\ last.victim # NoPair
    /\ Len(queue) = BLOCK_CACHE_SIZE
    /\ Durable(last.victim[1]) /\ disk[last.victim[1]] # Fill(0)
    /\ \E b \in Blocks : Pending(b) /\ ~Durable(b)

\* C13 (dirty-flag state machine): a miss creates its entry not modified;
\* every modify that returns leaves its entry modified, whatever it stored;
\* every sync, and block_cache_sync_all for every entry of the queue, leaves
\* the entry not modified; and the flag of an entry that lives through a step
\* changes in no other step: not in a read, a get_block_cache that hits it or
\* asks for another block, or a release.
C13_DirtyFlagStateMachine ==
    [][ /\ (MissStep /\ ~panicked') => ~heap'[last'.ptr].modified
        /\ (last'.op = "modify" /\ ~panicked') => heap'[last'.ptr].modified
        /\ last'.op = "sync" => ~heap'[last'.ptr].modified
        /\ last'.op = "sync_all"
             => \A i \in 1..Len(queue) : ~heap'[queue[i][2]].modified
        /\ \A a \in Addrs :
             (heap[a].live /\ heap'[a].live /\ heap'[a].modified # heap[a].modified)
               => \/ last'.op \in {"modify", "sync"} /\ last'.ptr = a
                  \/ last'.op = "sync_all" ]_vars

\* C13 witness: a modify stored in a clean entry the bytes it already held,
\* and the entry is modified with its buffer equal to the device's block.
C13_Witness ==
    /\ last.op = "modify" /\ ~panicked
    /\ heap[last.ptr].modified
    /\ last.val = Fill(1)
    /\ heap[last.ptr].cache = disk[last.id]

\* C14 (dirty flag and mutation): in every state, an entry is modified exactly
\* when a modify was served on it since its last sync, or since its creation
\* if it was never synced.
C14_DirtyIffMutated ==
    \A a \in Addrs : heap[a].live => (heap[a].modified <=> a \in touched)

\* C14, while every call is served: the same in every state the program has
\* not panicked in.
C14_DirtyIffMutatedWhileServed ==
    ~panicked => \A a \in Addrs : heap[a].live => (heap[a].modified <=> a \in touched)

\* The device reads among the device calls ops.
Reads(ops) == {i \in 1..Len(ops) : ops[i].op = "read"}
\* The pool is full and a consumer holds every entry.
Saturated ==
    Len(queue) = BLOCK_CACHE_SIZE /\ \A i \in 1..Len(queue) : Pinned(i)

\* C15 (device reads by get_block_cache): a get_block_cache of an id in the
\* queue calls the device not at all and leaves the queue as it was; a
\* get_block_cache of an id not in the queue makes exactly one device read,
\* of that id, and appends the new pair at the back, its entry not modified.
C15_DeviceReadsByAcquire ==
    [][ /\ HitStep => io' = << >> /\ disk' = disk /\ queue' = queue
        /\ MissStep
             => /\ Cardinality(Reads(io')) = 1
                /\ \A i \in Reads(io') : io'[i].id = last'.id
                /\ queue'[Len(queue')] = <<last'.id, last'.ptr>>
                /\ ~heap'[last'.ptr].modified ]_vars

\* C15, amended: the same, for every miss but the one on a saturated pool,
\* which panics with no device call and no new pair; the read is the last
\* device call of the step and the entry holds what it read.
C15_DeviceReadsUnlessSaturated ==
    [][ /\ HitStep => io' = << >> /\ disk' = disk /\ queue' = queue
        /\ (MissStep /\ ~Saturated)
             => /\ ~panicked'
                /\ Cardinality(Reads(io')) = 1
                /\ io'[Len(io')] = ReadOp(last'.id, disk'[last'.id])
                /\ queue'[Len(queue')] = <<last'.id, last'.ptr>>
                /\ \A i \in 1..(Len(queue') - 1) : queue'[i] \in Range(queue)
                /\ ~heap'[last'.ptr].modified
                /\ heap'[last'.ptr].cache = disk'[last'.id]
        /\ (MissStep /\ Saturated)
             => panicked' /\ io' = << >> /\ queue' = queue ]_vars

\* C15 witness: a miss on a full pool wrote the evicted entry, then read the
\* new block once, and its pair is at the back with a clean entry.
C15_Witness ==
    /\ last.op = "get" /\ ~panicked
    /\ Len(io) = 2 /\ io[1].op = "write" /\ io[2].op = "read" /\ io[2].id = last.id
    /\ queue[Len(queue)] = <<last.id, last.ptr>>
    /\ ~heap[last.ptr].modified
    /\ heap[last.ptr].cache # Fill(0)

InQueue(a) == \E i \in 1..Len(queue) : queue[i][2] = a

\* C18 (single live entry per block): in every state, every Arc a consumer
\* holds points to an entry that is in the queue; the live entries are exactly
\* those of the queue, each under its own block id, so no block has two; a
\* release destroys no entry and writes nothing; and a modify or read is
\* served on an entry of the queue only.
C18_SingleLiveEntry ==
    /\ \A a \in Addrs : handles[a] > 0 => InQueue(a)
    /\ \A a \in Addrs : heap[a].live <=> InQueue(a)
    /\ \A i \in 1..Len(queue) : heap[queue[i][2]].block_id = queue[i][1]
    /\ \A a, b \in Addrs :
         (heap[a].live /\ heap[b].live /\ heap[a].block_id = heap[b].block_id) => a = b
    /\ last.op = "release" => heap[last.ptr].live /\ io = << >>
    /\ last.op \in {"modify", "read"} => <<last.id, last.ptr>> \in Range(queue)

\* C18 witness: a consumer released the only handle to a modified entry; the
\* entry is still in the queue, alive and unwritten, and the pool is full.
C18_Witness ==
    /\ last.op = "release" /\ handles[last.ptr] = 0
    /\ InQueue(last.ptr) /\ heap[last.ptr].modified
    /\ heap[last.ptr].cache # disk[last.id]
    /\ Len(queue) = BLOCK_CACHE_SIZE

\* C20 (clean entries mirror the device): in every state, with the device
\* written through the cache only, every entry of the queue that is not
\* modified has a buffer equal to the device's contents of its block.
C20_CleanMirrorsDevice ==
    \A i \in 1..Len(queue) :
        ~heap[queue[i][2]].modified => heap[queue[i][2]].cache = disk[queue[i][1]]

\* C20 witness: after a sync, a clean entry and the device both hold contents
\* a modify stored, while another entry is modified and differs from the
\* device.
C20_Witness ==
    /\ last.op = "sync" /\ Len(io) = 1
    /\ ~heap[last.ptr].modified
    /\ heap[last.ptr].cache = Fill(1) /\ disk[last.id] = Fill(1)
    /\ \E i \in 1..Len(queue) :
         heap[queue[i][2]].modified /\ heap[queue[i][2]].cache # disk[queue[i][1]]

\* Thread t is inside the manager's part of a call, after its lock().
InPool(t) == th[t].pc \in {"get_find", "get_evict", "get_insert", "all_next", "all_sync"}
\* Thread t has returned from a get_block_cache and holds the Arc it got.
Holds(t) == th[t].pc \notin {"get_lock", "get_find", "get_evict", "get_insert"}
              /\ th[t].ptr # NoAddr

\* What C17 says of a state.
PoolLockAtomicity ==
    /\ \A t \in Threads : InPool(t) => mlock = t
    /\ \A i, j \in 1..Len(queue) : queue[i][1] = queue[j][1] => i = j
    /\ \A a, b \in Addrs :
         (heap[a].live /\ heap[b].live /\ heap[a].block_id = heap[b].block_id) => a = b
    /\ \A t, u \in Threads :
         (Holds(t) /\ Holds(u) /\ th[t].id = th[u].id)
           => /\ th[t].ptr = th[u].ptr
              /\ t # u => th[t].rd + th[u].rd <= 1

\* C17 (pool-lock atomicity): with threads calling get_block_cache and
\* block_cache_sync_all at once, a thread between its lock() of the manager
\* and its return is the only one there, and no step of another thread
\* changes the queue meanwhile; a thread inserts a block only while the queue
\* does not hold it, with one device read, and a thread that finds the block
\* in the queue reads nothing and gets the entry that is there; so no block
\* has two entries, and two threads that asked for the same block at once
\* hold the same entry, read from the device by one of them at most (by one
\* of them exactly, when the block was not in the queue and no third thread
\* brought it in).
C17_PoolLockAtomicity ==
    [][ /\ PoolLockAtomicity'
        /\ \A t \in Threads :
             /\ (InPool(t) /\ th'[t] = th[t]) => queue' = queue
             /\ (th[t].pc = "get_find" /\ th'[t].pc = "idle")
                  => /\ <<th[t].id, th'[t].ptr>> \in Range(queue)
                     /\ th'[t].rd = 0
                     /\ heap' = heap /\ queue' = queue /\ disk' = disk
             /\ (th[t].pc = "get_insert" /\ th'[t].pc = "idle")
                  => /\ ~Resident(th[t].id)
                     /\ th'[t].rd = 1
                     /\ queue' = Append(queue, <<th[t].id, th'[t].ptr>>)
                     /\ Cardinality({a \in Addrs : heap'[a].live})
                          = Cardinality({a \in Addrs : heap[a].live}) + 1 ]_vars

\* C17 witness: both threads called get_block_cache of the same block while
\* the queue did not hold it; both have returned with the same entry, and one
\* of them read the device.
C17_Witness ==
    /\ \A t \in Threads : th[t].pc = "idle" /\ th[t].ptr # NoAddr /\ ~th[t].res0
    /\ th[1].id = th[2].id /\ th[1].ptr = th[2].ptr
    /\ th[1].rd + th[2].rd = 1
    /\ handles[th[1].ptr] = 2
    /\ Len(queue) = BLOCK_CACHE_SIZE

\* Thread t holds the lock of some entry.
HoldsEntry(t) == \E a \in Addrs : elock[a] = t
\* Thread t is at a lock() that another thread's holding keeps it from.
Blocked(t) ==
    \/ th[t].pc \in {"get_lock", "all_lock"} /\ mlock # 0
    \/ th[t].pc = "entry_lock" /\ elock[th[t].ptr] # 0
    \/ th[t].pc = "all_next" /\ th[t].i <= Len(queue) /\ elock[queue[th[t].i][2]] # 0
\* The thread that holds the lock thread t is blocked at.
Blocker(t) ==
    IF th[t].pc \in {"get_lock", "all_lock"} THEN mlock
    ELSE IF th[t].pc = "entry_lock" THEN elock[th[t].ptr]
    ELSE elock[queue[th[t].i][2]]
\* Thread t is inside a get_block_cache or a block_cache_sync_all.
InPoolCall(t) ==
    th[t].pc \in {"get_lock", "get_find", "get_evict", "get_insert",
                  "all_lock", "all_next", "all_sync"}

\* Locks are taken in the order manager, then entry: a thread at the
\* manager's lock() holds no lock, a thread at an entry's lock() holds no
\* other entry's lock, and a thread holds an entry's lock only inside one
\* call on that entry.
LockOrder ==
    \A t \in Threads :
        /\ th[t].pc \in {"get_lock", "all_lock"} => mlock # t /\ ~HoldsEntry(t)
        /\ th[t].pc \in {"entry_lock", "all_next"} => ~HoldsEntry(t)
        /\ th[t].pc = "entry_lock" => mlock # t
        /\ HoldsEntry(t) => th[t].pc \in {"entry_body", "all_sync"}
        /\ Cardinality({a \in Addrs : elock[a] = t}) <= 1

\* No thread is blocked by itself or by a thread that is blocked by it in
\* turn, and the threads are never all blocked.
NoDeadlock ==
    /\ \A t \in Threads :
         Blocked(t) => /\ Blocker(t) # t
                       /\ Blocked(Blocker(t)) => ~Blocked(Blocker(Blocker(t)))
    /\ \E t \in Threads : ~Blocked(t)

\* C19 (deadlock freedom): with threads calling get_block_cache,
\* block_cache_sync_all and modify, read and sync on the Arcs they hold, locks
\* are taken in the order manager then entry, the threads are never all
\* blocked at a lock, and every block_cache_sync_all and every
\* get_block_cache that is not on a saturated pool returns in the end.
C19_DeadlockFreedom ==
    /\ [](LockOrder /\ NoDeadlock)
    /\ \A t \in Threads : InPoolCall(t) ~> (th[t].pc = "idle")

\* C19, amended: locks are taken in the order manager then entry, no thread
\* waits in a cycle, and the threads are never all blocked at a lock.
C19_NoDeadlock ==
    LockOrder /\ NoDeadlock

\* C19 witness: a thread in block_cache_sync_all holds the manager's lock and
\* is blocked at the lock of an entry, which the other thread holds inside a
\* modify.
C19_Witness ==
    /\ th[1].pc = "all_next" /\ mlock = 1 /\ Blocked(1)
    /\ th[2].pc = "entry_body" /\ th[2].op = "modify"
    /\ Blocker(1) = 2
    /\ Len(queue) = BLOCK_CACHE_SIZE

\* C19's last part where no waiting thread starves (SpecConcStrong): every
\* block_cache_sync_all and every get_block_cache returns in the end.
C19_ReturnsIfNotStarved ==
    \A t \in Threads : InPoolCall(t) ~> (th[t].pc = "idle")
====
